---- MODULE Spec2Model ----
(***************************************************************************)
(* SnapshotCleanupManager.cleanup_snapshots of zfs_snapshot_manager.py,    *)
(* run against an in-memory snapshot source (TestSnapshotManager) whose    *)
(* remove_snapshot may also fail the way ZfsSnapshotManager's does.        *)
(*                                                                         *)
(* Time is counted in microseconds, the resolution of datetime and         *)
(* timedelta: a timestamp is an integer, a period is an integer.           *)
(***************************************************************************)
EXTENDS Integers, Sequences, FiniteSets

\* Bounds of the model.
MaxSnapshots == 4
MaxTime == 4
MaxPeriod == 3
MaxKeep == 2
MaxRuns == 2

VARIABLES
    source,            \* the snapshot source's list of handles (self.snapshots)
    stamp,             \* handle -> creation timestamp (get_snapshot_timestamp)
    rules,             \* snapshot_cleanup_rules, in the caller's order
    now,               \* the reference time passed to cleanup_snapshots
    pc,                \* position of the caller / of cleanup_snapshots
    snapshots,         \* local: the working set, ascending by timestamp
    order,             \* local: sorted(snapshot_cleanup_rules, key=period)
    ri,                \* local: number of rules the for loop has entered
    candidate_groups,  \* local: the buckets of the current rule
    removed,           \* handles whose remove_snapshot call returned, in call order
    calls,             \* remove_snapshot calls issued by the current invocation
    error,             \* what the current invocation raised: none, assert, remove
    classified,        \* per entered rule, its buckets as classified (history)
    history,           \* outcomes of the earlier invocations (history)
    initial,           \* the source's list before the first invocation (history)
    source0            \* the source's list when the current invocation began (history)

vars == <<source, stamp, rules, now, pc, snapshots, order, ri, candidate_groups,
          removed, calls, error, classified, history, initial, source0>>

----------------------------------------------------------------------------
\* Generic helpers.

Last(s) == s[Len(s)]

Front(s) == SubSeq(s, 1, Len(s) - 1)

Range(s) == {s[i] : i \in 1..Len(s)}

RECURSIVE SetToDescSeq(_)
\* sorted(candidate_groups, reverse=True): the dict's keys, largest first.
SetToDescSeq(S) ==
    IF S = {} THEN <<>>
    ELSE LET m == CHOOSE x \in S : \A y \in S : y <= x
         IN  <<m>> \o SetToDescSeq(S \ {m})

RECURSIVE Total(_)
\* sum(len(x) for x in candidate_groups)
Total(groups) ==
    IF groups = <<>> THEN 0 ELSE Len(Head(groups)) + Total(Tail(groups))

----------------------------------------------------------------------------
\* The input domain.

Times == 0..MaxTime

\* Rules that pass the assert of line 47: a short and a long period, every keep.
\* Rules that fail it: a period that is not positive (it sorts first) and a keep
\* that is not positive (with the long period it sorts last).
ValidRules == [period : {1, MaxPeriod}, keep : 1..MaxKeep]

InvalidRules == {[period |-> 0, keep |-> 1], [period |-> MaxPeriod, keep |-> 0]}

Rules == ValidRules \cup InvalidRules

\* Handles are numbered in creation order, so timestamps do not decrease with the
\* handle; the source lists them oldest first or newest first.
Stamps(n) == {f \in [1..n -> Times] : \A i \in 1..n, j \in 1..n : i < j => f[i] <= f[j]}

Listings(n) == {[i \in 1..n |-> i], [i \in 1..n |-> n + 1 - i]}

Policies == {<<>>} \cup {<<r>> : r \in Rules} \cup {<<r, q>> : r \in Rules, q \in Rules}

\* assert rule['period'].total_seconds() > 0 and rule['keep'] > 0
RuleOk(rule) == rule.period > 0 /\ rule.keep > 0

ValidPolicy(table) == \A i \in 1..Len(table) : RuleOk(table[i])

----------------------------------------------------------------------------
\* Pure parts of cleanup_snapshots.

\* timedelta / int: the quotient in microseconds, rounded half to even.
DivideAndRound(a, b) ==
    LET q == a \div b
        r == a % b
    IN  IF 2 * r > b \/ (2 * r = b /\ q % 2 = 1) THEN q + 1 ELSE q

\* list.sort and sorted are stable: taking the elements one at a time, an
\* element goes after the n elements already placed that do not compare greater.
InsertAt(x, s, n) == SubSeq(s, 1, n) \o <<x>> \o SubSeq(s, n + 1, Len(s))

RECURSIVE SortByTimestamp(_)
\* snapshots.sort(key=lambda x: x['timestamp'])  # old is left
SortByTimestamp(list) ==
    IF list = <<>> THEN <<>>
    ELSE LET x == Last(list)
             s == SortByTimestamp(Front(list))
         IN  InsertAt(x, s, Cardinality({i \in 1..Len(s) : ~(stamp[x] < stamp[s[i]])}))

RECURSIVE SortRules(_)
\* sorted(self.snapshot_cleanup_rules, key=lambda x: x['period'])
SortRules(table) ==
    IF table = <<>> THEN <<>>
    ELSE LET x == Last(table)
             s == SortRules(Front(table))
         IN  InsertAt(x, s, Cardinality({i \in 1..Len(s) : ~(x.period < s[i].period)}))

\* The keys of candidate_groups: now - period / keep * (i + 1), i in range(keep).
Thresholds(nw, rule) ==
    {nw - DivideAndRound(rule.period, rule.keep) * (i + 1) : i \in 0..(rule.keep - 1)}

\* The inner for loop with its break: the thresholds the timestamp reaches. The
\* first of them, scanning from the largest, takes the snapshot; when there is
\* none the for's else branch appends the snapshot to remaining.
Reached(ts, keys) == {t \in keys : ts >= t}

InGroup(ts, keys, key) ==
    /\ key \in Reached(ts, keys)
    /\ \A u \in Reached(ts, keys) : u <= key

\* Lines 49-59 and 68: the buckets in the dict's insertion order, and remaining.
Classify(work, nw, rule) ==
    LET keys == Thresholds(nw, rule)
        desc == SetToDescSeq(keys)
    IN  [groups |-> [i \in 1..Len(desc) |->
                        SelectSeq(work, LAMBDA s : InGroup(stamp[s], keys, desc[i]))],
         remaining |-> SelectSeq(work, LAMBDA s : Reached(stamp[s], keys) = {})]

\* Mutant of the while condition: one snapshot too many is tolerated.
NeedsThinningLoose(groups, keep) == Total(groups) > keep + 1

\* Mutant of the while condition: the loop goes on at exactly keep snapshots.
NeedsThinningEager(groups, keep) == Total(groups) >= keep

\* while sum(len(x) for x in candidate_groups) > rule['keep']
NeedsThinning(groups, keep) == Total(groups) > keep

\* Mutant of the sort key: among equally crowded buckets the one whose newest
\* member is the earliest sorts last.
GroupKeyLessEarliest(a, b) ==
    \/ Len(a) < Len(b)
    \/ Len(a) = Len(b) /\ stamp[Last(a)] > stamp[Last(b)]

\* The sort key (len(x), x[-1]['timestamp']), compared as a tuple.
GroupKeyLess(a, b) ==
    \/ Len(a) < Len(b)
    \/ Len(a) = Len(b) /\ stamp[Last(a)] < stamp[Last(b)]

RECURSIVE SortGroups(_)
\* candidate_groups.sort(key=lambda x: (len(x), x[-1]['timestamp']))
SortGroups(groups) ==
    IF groups = <<>> THEN <<>>
    ELSE LET x == Last(groups)
             s == SortGroups(Front(groups))
         IN  InsertAt(x, s, Cardinality({i \in 1..Len(s) : ~GroupKeyLess(x, s[i])}))

\* candidate_groups = list(filter(None, candidate_groups))
FilterNone(groups) == SelectSeq(groups, LAMBDA g : g # <<>>)

\* Mutant of the pop: candidate_groups[-1].pop(0), the variant the source keeps
\* in a comment.
PopOldest(groups) ==
    [victim |-> Head(Last(groups)),
     rest   |-> [groups EXCEPT ![Len(groups)] = Tail(Last(groups))]]

\* candidate_groups[-1].pop(-1): the handle popped, and the list left behind.
PopVictim(groups) ==
    [victim |-> Last(Last(groups)),
     rest   |-> [groups EXCEPT ![Len(groups)] = Front(Last(groups))]]

\* Mutant of remove_snapshot: the call returns and the source keeps the snapshot.
ListRemoveNoop(list, s) == list

\* Mutant of remove_snapshot: handles compare equal when their timestamps do, so
\* the first listed snapshot of that timestamp goes.
ListRemoveByStamp(list, s) ==
    LET at == {i \in 1..Len(list) : stamp[list[i]] = stamp[s]}
        k  == CHOOSE i \in at : \A j \in at : i <= j
    IN  IF at = {} THEN list
        ELSE SubSeq(list, 1, k - 1) \o SubSeq(list, k + 1, Len(list))

\* TestSnapshotManager.remove_snapshot: self.snapshots.remove(snapshot), which
\* drops the first element equal to the handle.
ListRemove(list, s) ==
    LET at == {i \in 1..Len(list) : list[i] = s}
        k  == CHOOSE i \in at : \A j \in at : i <= j
    IN  IF at = {} THEN list
        ELSE SubSeq(list, 1, k - 1) \o SubSeq(list, k + 1, Len(list))

\* Mutant of the propagation: the error is swallowed and the loop goes on.
OnRemoveErrorSwallow(p) == p

\* A raise in remove_snapshot leaves cleanup_snapshots: nothing catches it.
OnRemoveError(p) == "failed"

----------------------------------------------------------------------------
\* cleanup_snapshots computed in one piece, for an invocation no call of which
\* fails: the handles it passes to remove_snapshot, in call order.

RECURSIVE ThinAll(_, _)
\* Lines 70-73: the while loop of one rule, run until its condition is false.
ThinAll(groups, keep) ==
    IF NeedsThinning(groups, keep)
    THEN LET p == PopVictim(SortGroups(FilterNone(groups)))
         IN  <<p.victim>> \o ThinAll(p.rest, keep)
    ELSE <<>>

RECURSIVE RunRules(_, _, _)
\* Lines 46-73: the for loop over the sorted rules; the assert ends it.
RunRules(work, sorted, nw) ==
    IF sorted = <<>> \/ ~RuleOk(Head(sorted)) THEN <<>>
    ELSE LET c == Classify(work, nw, Head(sorted))
         IN  ThinAll(c.groups, Head(sorted).keep) \o RunRules(c.remaining, Tail(sorted), nw)

\* Lines 39-73.
Deletions(list, nw, table) == RunRules(SortByTimestamp(list), SortRules(table), nw)

----------------------------------------------------------------------------
\* The state machine.

Init ==
    /\ \E n \in 0..MaxSnapshots :
          /\ source \in Listings(n)
          /\ stamp \in Stamps(n)
    /\ rules \in Policies
    /\ now = MaxTime
    /\ pc = "idle"
    /\ snapshots = <<>>
    /\ order = <<>>
    /\ ri = 0
    /\ candidate_groups = <<>>
    /\ removed = <<>>
    /\ calls = 0
    /\ error = "none"
    /\ classified = <<>>
    /\ history = <<>>
    /\ initial = source
    /\ source0 = source

\* The caller invokes cleanup_snapshots(now). Lines 39-46: the working set is read
\* from the source and sorted, the rule table is sorted, the for loop begins.
Invoke ==
    /\ pc \in {"idle", "done", "failed", "invalid"}
    /\ Len(history) + 1 < MaxRuns \/ pc = "idle"
    /\ history' = IF pc = "idle" THEN history ELSE Append(history, pc)
    /\ snapshots' = SortByTimestamp(source)
    /\ order' = SortRules(rules)
    /\ ri' = 0
    /\ candidate_groups' = <<>>
    /\ removed' = <<>>
    /\ calls' = 0
    /\ error' = "none"
    /\ classified' = <<>>
    /\ source0' = source
    /\ pc' = "for"
    /\ UNCHANGED <<source, stamp, rules, now, initial>>

\* Line 46: the sorted rules are exhausted; cleanup_snapshots returns.
ForDone ==
    /\ pc = "for"
    /\ ri = Len(order)
    /\ pc' = "done"
    /\ UNCHANGED <<source, stamp, rules, now, snapshots, order, ri, candidate_groups,
                   removed, calls, error, classified, history, initial, source0>>

\* Line 47: the next rule fails the assert; AssertionError reaches the caller.
ForInvalid ==
    /\ pc = "for"
    /\ ri < Len(order)
    /\ ~RuleOk(order[ri + 1])
    /\ ri' = ri + 1
    /\ error' = "assert"
    /\ pc' = "invalid"
    /\ UNCHANGED <<source, stamp, rules, now, snapshots, order, candidate_groups,
                   removed, calls, classified, history, initial, source0>>

\* Lines 47-68: the next rule passes the assert; the working set is classified
\* into the rule's buckets and what no bucket takes becomes the working set.
ForRule ==
    /\ pc = "for"
    /\ ri < Len(order)
    /\ RuleOk(order[ri + 1])
    /\ LET c == Classify(snapshots, now, order[ri + 1])
       IN  /\ candidate_groups' = c.groups
           /\ snapshots' = c.remaining
           /\ classified' = Append(classified, c.groups)
    /\ ri' = ri + 1
    /\ pc' = "while"
    /\ UNCHANGED <<source, stamp, rules, now, order, removed, calls, error,
                   history, initial, source0>>

\* Line 70: the while condition is false; on to the next rule.
WhileExit ==
    /\ pc = "while"
    /\ ~NeedsThinning(candidate_groups, order[ri].keep)
    /\ pc' = "for"
    /\ UNCHANGED <<source, stamp, rules, now, snapshots, order, ri, candidate_groups,
                   removed, calls, error, classified, history, initial, source0>>

\* Lines 70-73: one iteration of the while loop whose remove_snapshot returns.
RemoveOk ==
    /\ pc = "while"
    /\ NeedsThinning(candidate_groups, order[ri].keep)
    /\ LET p == PopVictim(SortGroups(FilterNone(candidate_groups)))
       IN  /\ candidate_groups' = p.rest
           /\ source' = ListRemove(source, p.victim)
           /\ removed' = Append(removed, p.victim)
    /\ calls' = calls + 1
    /\ UNCHANGED <<stamp, rules, now, pc, snapshots, order, ri, error, classified,
                   history, initial, source0>>

\* Lines 70-73: one iteration of the while loop whose remove_snapshot raises
\* (zfs destroy exits non-zero and _run re-raises CalledProcessError).
RemoveFail ==
    /\ pc = "while"
    /\ NeedsThinning(candidate_groups, order[ri].keep)
    /\ LET p == PopVictim(SortGroups(FilterNone(candidate_groups)))
       IN  candidate_groups' = p.rest
    /\ calls' = calls + 1
    /\ error' = "remove"
    /\ pc' = OnRemoveError(pc)
    /\ UNCHANGED <<source, stamp, rules, now, snapshots, order, ri, removed,
                   classified, history, initial, source0>>

Next ==
    \/ Invoke
    \/ ForDone
    \/ ForInvalid
    \/ ForRule
    \/ WhileExit
    \/ RemoveOk
    \/ RemoveFail

Spec == Init /\ [][Next]_vars

----------------------------------------------------------------------------
\* Vocabulary of the properties.

\* The handles a rule's buckets hold.
Members(groups) == UNION {Range(groups[i]) : i \in 1..Len(groups)}

RECURSIVE SumKeep(_)
SumKeep(table) ==
    IF table = <<>> THEN 0 ELSE Head(table).keep + SumKeep(Tail(table))

LargestPeriod(table) ==
    CHOOSE p \in {table[i].period : i \in 1..Len(table)} :
        \A i \in 1..Len(table) : table[i].period <= p

SmallestKeep(table) ==
    CHOOSE k \in {table[i].keep : i \in 1..Len(table)} :
        \A i \in 1..Len(table) : k <= table[i].keep

RECURSIVE Excess(_, _)
\* Over the rules entered so far: the snapshots a rule classified beyond its keep.
Excess(cls, sorted) ==
    IF cls = <<>> THEN 0
    ELSE (IF Total(Head(cls)) > Head(sorted).keep
          THEN Total(Head(cls)) - Head(sorted).keep ELSE 0)
         + Excess(Tail(cls), Tail(sorted))

Running == pc \in {"for", "while"}

\* What the invocation still has to go through; every step inside it lowers this.
Work ==
    2 * (Len(order) - ri) + Len(snapshots)
    + (IF pc = "while" THEN 1 + Total(candidate_groups) ELSE 0)

Orderings(n) == {f \in [1..n -> 1..n] : \A i \in 1..n, j \in 1..n : f[i] = f[j] => i = j}

Permute(table, f) == [i \in 1..Len(table) |-> table[f[i]]]

----------------------------------------------------------------------------
\* C1: an invocation that follows a completed one, with the same now, issues no
\* remove_snapshot call at all.
C1_Idempotent ==
    (history # <<>> /\ Last(history) = "done") => calls = 0

\* A second invocation has completed after a first one that deleted snapshots.
C1_Witness ==
    /\ pc = "done"
    /\ history = <<"done">>
    /\ Len(source) < Len(initial)
    /\ calls = 0

\* C2: once the invocation has completed, every rule has at most keep survivors
\* among the snapshots it classified into its buckets.
C2_PerTierBound ==
    pc = "done" =>
        \A j \in 1..Len(classified) :
            Cardinality(Range(source) \cap Members(classified[j])) <= order[j].keep

\* A completed invocation in which a rule had classified more than its keep.
C2_Witness ==
    /\ pc = "done"
    /\ \E j \in 1..Len(classified) :
          /\ Total(classified[j]) > order[j].keep
          /\ Cardinality(Range(source) \cap Members(classified[j])) = order[j].keep

\* C3: under a valid policy no snapshot older than now minus the largest period
\* is removed.
C3_NoPrematureDeletion ==
    (ValidPolicy(rules) /\ rules # <<>>) =>
        \A i \in 1..Len(removed) : stamp[removed[i]] >= now - LargestPeriod(rules)

\* C4: under a policy with an invalid rule the invocation issues no
\* remove_snapshot call and does not complete.
C4_ConfigErrorFirst ==
    ~ValidPolicy(rules) => (calls = 0 /\ pc # "done")

\* C5: whenever an invocation completes, whatever earlier invocations were cut
\* short by a failed removal, the source holds exactly what one uninterrupted
\* invocation on the initial snapshots leaves.
C5_Converges ==
    pc = "done" =>
        Range(source) = Range(initial) \ Range(Deletions(initial, now, rules))

\* An invocation was cut short after at least one removal, and the next
\* invocation removed more and completed.
C5_Witness ==
    /\ pc = "done"
    /\ history = <<"failed">>
    /\ Len(source0) < Len(initial)
    /\ removed # <<>>

\* C6 as claimed: a completed invocation has issued at most
\* len(snapshots) - sum(keep) remove_snapshot calls.
C6_DeletionBound ==
    pc = "done" => calls <= Len(source0) - SumKeep(order)

\* C6 as amended: the calls issued never exceed the sum over the rules of what
\* the rule classified beyond its keep, so any calls at all number at most
\* len(snapshots) minus the smallest keep; and every step inside the
\* invocation lowers Work, which is never negative, so the invocation ends.
C6_BoundedAndTerminating ==
    [][ /\ calls' <= Excess(classified', order')
        /\ calls' > 0 => calls' <= Len(source0') - SmallestKeep(order')
        /\ Work' >= 0
        /\ (Running /\ Running') => Work' < Work ]_vars

\* A completed invocation over two rules that removed snapshots.
C6_Witness ==
    /\ pc = "done"
    /\ Len(order) = 2
    /\ calls > 0
    /\ calls = Len(removed)
    /\ calls = Excess(classified, order)

\* C7: of every bucket that received a snapshot, the first (oldest) member is
\* never removed, and the members removed are the last (newest) ones.
C7_OldestAnchors ==
    \A j \in 1..Len(classified) : \A b \in 1..Len(classified[j]) :
        LET g == classified[j][b]
        IN  g # <<>> =>
                /\ Head(g) \notin Range(removed)
                /\ \A a \in 1..Len(g), c \in 1..Len(g) :
                      (a < c /\ g[a] \in Range(removed)) => g[c] \in Range(removed)

\* A bucket of three snapshots was thinned to its oldest member, which is
\* strictly older than the newest one removed.
C7_Witness ==
    /\ pc = "done"
    /\ \E j \in 1..Len(classified) : \E b \in 1..Len(classified[j]) :
          LET g == classified[j][b]
          IN  /\ Len(g) >= 3
              /\ stamp[Head(g)] < stamp[Last(g)]
              /\ Range(g) \cap Range(source) = {Head(g)}

\* C8: the removals of a completed first invocation are those of every
\* permutation of the rule table.
C8_RuleOrderIndependent ==
    (pc = "done" /\ history = <<>>) =>
        \A f \in Orderings(Len(rules)) :
            Deletions(initial, now, Permute(rules, f)) = removed

\* C9: once a remove_snapshot call has raised, the invocation is over with the
\* error at the caller, the failing call was its last call, and the source is
\* what it was at the start without the snapshots removed before.
C9_DeleteFailureStops ==
    error = "remove" =>
        /\ pc = "failed"
        /\ calls = Len(removed) + 1
        /\ Range(source) = Range(source0) \ Range(removed)
        /\ Len(source) = Len(source0) - Len(removed)

\* A removal failed after another had succeeded and while the rule was still
\* over its keep.
C9_Witness ==
    /\ error = "remove"
    /\ pc = "failed"
    /\ removed # <<>>
    /\ NeedsThinning(candidate_groups, order[ri].keep)

\* C10: every removal takes the newest member of a bucket of the current rule
\* that has the most members, strictly newer than every other bucket with as
\* many; and the snapshots removed before were classified by this rule or by
\* one sorted before it, whose period is not larger.
C10_SelectionStep ==
    [][ Len(removed') = Len(removed) + 1 =>
          LET v == removed'[Len(removed')]
          IN  /\ \E b \in 1..Len(candidate_groups) :
                    LET g == candidate_groups[b]
                    IN  /\ g # <<>>
                        /\ v = Last(g)
                        /\ \A s \in Range(g) : stamp[s] <= stamp[v]
                        /\ \A c \in 1..Len(candidate_groups) :
                              LET h == candidate_groups[c]
                              IN  /\ Len(h) <= Len(g)
                                  /\ (c # b /\ Len(h) = Len(g)) => stamp[Last(h)] < stamp[v]
              /\ v \in Members(classified[ri])
              /\ \A i \in 1..Len(removed) : \E j \in 1..ri :
                    /\ removed[i] \in Members(classified[j])
                    /\ order[j].period <= order[ri].period ]_vars

\* The first removal of a rule broke a tie between two buckets holding the
\* same, largest number of snapshots: it took the newest member of the newer one.
C10_Witness ==
    /\ pc = "while"
    /\ Len(removed) = 1
    /\ \E b \in 1..Len(classified[ri]), c \in 1..Len(classified[ri]) :
          LET g == classified[ri][b]
              h == classified[ri][c]
          IN  /\ b # c
              /\ Len(g) = Len(h)
              /\ \A d \in 1..Len(classified[ri]) : Len(classified[ri][d]) <= Len(g)
              /\ removed[1] = Last(g)
              /\ stamp[Last(h)] < stamp[Last(g)]

\* The second rule is being thinned after the first rule was.
C10_OrderWitness ==
    /\ pc = "while"
    /\ ri = 2
    /\ Range(removed) \cap Members(classified[1]) # {}
    /\ Range(removed) \cap Members(classified[2]) # {}

====
